---- MODULE Spec2Model ----
(***************************************************************************)
(* Real Estate Depreciation & Tax Scenario Simulator (src/main.py).        *)
(*                                                                         *)
(* The script is executed top to bottom on every widget interaction: the   *)
(* sidebar widgets give the module-level inputs, then the six tabs run in  *)
(* order over shared module-level names.                                   *)
(*                                                                         *)
(* Numbers: Python's int/float arithmetic is modelled by exact rational    *)
(* arithmetic, a rational being a normalised pair <<numerator,             *)
(* denominator>> with a positive denominator.  Binary rounding of floats   *)
(* is not modelled.  Dollar amounts are in units of $50,000 (the formulas  *)
(* are linear in the amounts), so the default property value 10,000,000    *)
(* is 200 and the default land value 2,000,000 is 40.                      *)
(***************************************************************************)
EXTENDS Integers, Sequences, FiniteSets, TLC

\* ------------------------------------------------------------------ bounds
\* Modeling periods 0..MaxYears are entered in the "Modeling Period" widget.
MaxYears == 3
\* Depreciation periods -1/2, 0, 1/2, ..., MaxDepHalves/2 are entered.
MaxDepHalves == 4

\* ------------------------------------------------- arithmetic (+ - * / <=)
Abs(n) == IF n < 0 THEN 0 - n ELSE n

RECURSIVE GCD(_, _)
GCD(a, b) == IF b = 0 THEN a ELSE GCD(b, a % b)

\* The rational n/d in lowest terms (d # 0).
R(n, d) ==
    LET g == GCD(Abs(n), Abs(d))
        s == IF d < 0 THEN 0 - 1 ELSE 1
    IN  <<(s * n) \div g, (s * d) \div g>>

Num(n) == <<n, 1>>
Zero == <<0, 1>>

\* The value of a name that has not been assigned in this run.
Unset == <<0, 0>>

RAdd(x, y) == R(x[1] * y[2] + y[1] * x[2], x[2] * y[2])
RSub(x, y) == R(x[1] * y[2] - y[1] * x[2], x[2] * y[2])
RMul(x, y) == R(x[1] * y[1], x[2] * y[2])
\* x / y for y # 0; Python raises ZeroDivisionError for y = 0, which the
\* callers model before dividing.
RDiv(x, y) == R(x[1] * y[2], x[2] * y[1])
RLeq(x, y) == x[1] * y[2] <= y[1] * x[2]
RLt(x, y) == x[1] * y[2] < y[1] * x[2]
RMax(x, y) == IF RLt(x, y) THEN y ELSE x

\* The outcome of a call: a returned value, or a raised exception.
Return(v) == [exc |-> "", val |-> v]
Raise(e) == [exc |-> e, val |-> <<>>]

\* --------------------------------------------------------- helper functions
\* Variant: normal depreciation taken on the whole building value, the bonus
\* not deducted from the basis.
calculate_depreciation_no_bonus_basis(property_value, land_value, dep_years, bonus_percent) ==
    IF dep_years = Zero THEN Raise("ZeroDivisionError")
    ELSE
    LET building_value == RSub(property_value, land_value)
        bonus_depreciation == RMul(building_value, bonus_percent)
        normal_depreciation == RDiv(building_value, dep_years)
        first_year_dep == RAdd(bonus_depreciation, normal_depreciation)
    IN  Return(<<bonus_depreciation, normal_depreciation, first_year_dep>>)

calculate_depreciation(property_value, land_value, dep_years, bonus_percent) ==
    LET building_value == RSub(property_value, land_value)
        bonus_depreciation == RMul(building_value, bonus_percent)
    IN  IF dep_years = Zero THEN Raise("ZeroDivisionError")
        ELSE
        LET normal_depreciation ==
                RDiv(RSub(building_value, bonus_depreciation), dep_years)
            first_year_dep == RAdd(bonus_depreciation, normal_depreciation)
        IN  Return(<<bonus_depreciation, normal_depreciation, first_year_dep>>)

DepRow(bonus, norm, total, cumulative) ==
    ("Bonus Depreciation" :> bonus) @@ ("Normal Depreciation" :> norm)
    @@ ("Total Depreciation" :> total) @@ ("Cumulative Depreciation" :> cumulative)

\* The loop of multi_year_cash_flow from `year` on; the result is the rows
\* of df for year..years, row i of the sequence being df.loc[i].
RECURSIVE multi_year_loop(_, _, _, _, _, _)
multi_year_loop(year, years, cumulative, bonus_dep, annual_normal_dep, dep_years) ==
    IF year > years THEN <<>>
    ELSE
    LET norm == IF year = 1 THEN annual_normal_dep
                ELSE IF RLeq(Num(year), dep_years) THEN annual_normal_dep ELSE Zero
        bonus == IF year = 1 THEN bonus_dep ELSE Zero
        total == RAdd(bonus, norm)
        cum == RAdd(cumulative, total)
    IN  <<DepRow(bonus, norm, total, cum)>>
        \o multi_year_loop(year + 1, years, cum, bonus_dep, annual_normal_dep, dep_years)

multi_year_cash_flow(property_value, land_value, dep_years, bonus_percent, years) ==
    LET building_value == RSub(property_value, land_value)
        bonus_dep == RMul(building_value, bonus_percent)
        remaining_basis == RSub(building_value, bonus_dep)
    IN  IF dep_years = Zero THEN Raise("ZeroDivisionError")
        ELSE
        LET annual_normal_dep == RDiv(remaining_basis, dep_years)
        IN  Return(multi_year_loop(1, years, Zero, bonus_dep, annual_normal_dep, dep_years))

DefaultRecaptureRate == R(25, 100)
DefaultCapitalGainsRate == R(20, 100)

SaleTaxResult(adjusted_basis, total_gain, dep_recapture_tax, cap_gains_tax, total_tax) ==
    ("Adjusted Basis" :> adjusted_basis) @@ ("Total Gain" :> total_gain)
    @@ ("Depreciation Recapture Tax" :> dep_recapture_tax)
    @@ ("Capital Gains Tax" :> cap_gains_tax) @@ ("Total Tax" :> total_tax)

\* Variant: recapture capped at the actual gain.
calculate_sale_tax_capped(cost_basis, sale_price, cumulative_depreciation, recapture_rate, capital_gains_rate) ==
    LET adjusted_basis == RSub(cost_basis, cumulative_depreciation)
        total_gain == RSub(sale_price, adjusted_basis)
        recaptured == IF RLt(total_gain, cumulative_depreciation)
                      THEN RMax(total_gain, Zero) ELSE cumulative_depreciation
        dep_recapture_tax == RMul(recaptured, recapture_rate)
        remaining_gain == RSub(total_gain, cumulative_depreciation)
        cap_gains_tax == RMul(RMax(remaining_gain, Zero), capital_gains_rate)
        total_tax == RAdd(dep_recapture_tax, cap_gains_tax)
    IN  SaleTaxResult(adjusted_basis, total_gain, dep_recapture_tax, cap_gains_tax, total_tax)

\* Variant: capital gains tax on the total gain, the recaptured depreciation
\* not deducted.
calculate_sale_tax_gain_not_reduced(cost_basis, sale_price, cumulative_depreciation, recapture_rate, capital_gains_rate) ==
    LET adjusted_basis == RSub(cost_basis, cumulative_depreciation)
        total_gain == RSub(sale_price, adjusted_basis)
        dep_recapture_tax == RMul(cumulative_depreciation, recapture_rate)
        cap_gains_tax == RMul(RMax(total_gain, Zero), capital_gains_rate)
        total_tax == RAdd(dep_recapture_tax, cap_gains_tax)
    IN  SaleTaxResult(adjusted_basis, total_gain, dep_recapture_tax, cap_gains_tax, total_tax)

calculate_sale_tax(cost_basis, sale_price, cumulative_depreciation, recapture_rate, capital_gains_rate) ==
    LET adjusted_basis == RSub(cost_basis, cumulative_depreciation)
        total_gain == RSub(sale_price, adjusted_basis)
        dep_recapture_tax == RMul(cumulative_depreciation, recapture_rate)
        remaining_gain == RSub(total_gain, cumulative_depreciation)
        cap_gains_tax == RMul(RMax(remaining_gain, Zero), capital_gains_rate)
        total_tax == RAdd(dep_recapture_tax, cap_gains_tax)
    IN  SaleTaxResult(adjusted_basis, total_gain, dep_recapture_tax, cap_gains_tax, total_tax)

\* Variant: the reinvested value reduces the taxed sale price.
simulate_1031_exchange_net_of_reinvestment(sale_price, total_depreciation, cost_basis, reinvested_value, recapture_rate, capital_gains_rate) ==
    LET tax_data == calculate_sale_tax(cost_basis, RSub(sale_price, reinvested_value),
                                       total_depreciation, recapture_rate, capital_gains_rate)
    IN  tax_data["Total Tax"]

simulate_1031_exchange(sale_price, total_depreciation, cost_basis, reinvested_value, recapture_rate, capital_gains_rate) ==
    LET tax_data == calculate_sale_tax(cost_basis, sale_price, total_depreciation,
                                       recapture_rate, capital_gains_rate)
    IN  tax_data["Total Tax"]

\* The dictionary literal built by every call of get_asset_breakdown.
breakdown ==
    ("Multifamily" :>
        (("5-year Assets" :> <<R(15, 100), Num(5), "Appliances, Carpets, Furniture">>)
         @@ ("15-year Assets" :> <<R(25, 100), Num(15), "Land Improvements, Parking Lots, Landscaping">>)
         @@ ("27.5-year Assets" :> <<R(60, 100), R(275, 10), "Structural Components, Roof, Walls, HVAC (structural)">>)))
    @@ ("Hotel" :>
        (("5-year Assets" :> <<R(25, 100), Num(5), "Furniture, Fixtures, Equipment">>)
         @@ ("15-year Assets" :> <<R(25, 100), Num(15), "Renovations, Interior Improvements">>)
         @@ ("39-year Assets" :> <<R(50, 100), Num(39), "Building Shell, Structural Components">>)))
    @@ ("Retail" :>
        (("5-year Assets" :> <<R(10, 100), Num(5), "Display Units, POS Equipment">>)
         @@ ("15-year Assets" :> <<R(25, 100), Num(15), "Store Fixtures, Signage, Interior Finishes">>)
         @@ ("39-year Assets" :> <<R(65, 100), Num(39), "Building Structure, Roof, Walls">>)))
    @@ ("Office" :>
        (("5-year Assets" :> <<R(10, 100), Num(5), "Furniture, Computers, Office Equipment">>)
         @@ ("15-year Assets" :> <<R(20, 100), Num(15), "Partitioning, Specialized Lighting, Finishes">>)
         @@ ("39-year Assets" :> <<R(70, 100), Num(39), "Building Shell, Structural Elements">>)))

\* Variant: an unknown property type falls back to the first entry.
get_asset_breakdown_fallback_first(property_type) ==
    IF property_type \in DOMAIN breakdown THEN breakdown[property_type]
    ELSE breakdown["Multifamily"]

get_asset_breakdown(property_type) ==
    IF property_type \in DOMAIN breakdown THEN breakdown[property_type] ELSE <<>>

CashFlowRow(year, noi, depreciation, taxable_operating_income, tax_liability, operating_cf, cumulative) ==
    ("Year" :> Num(year)) @@ ("NOI" :> noi) @@ ("Depreciation" :> depreciation)
    @@ ("Taxable Operating Income" :> taxable_operating_income)
    @@ ("Tax Liability" :> tax_liability) @@ ("Operating Cash Flow" :> operating_cf)
    @@ ("Cumulative Operating Cash Flow" :> cumulative)

\* Variant: a loss year yields a negative tax liability (a refund).
RECURSIVE operating_cash_flow_loop_refund_losses(_, _, _, _, _, _)
operating_cash_flow_loop_refund_losses(year, df_dep, cumulative, rental_income, operating_expenses, tax_bracket) ==
    IF year > Len(df_dep) THEN <<>>
    ELSE
    LET depreciation == df_dep[year]["Total Depreciation"]
        noi == RSub(rental_income, operating_expenses)
        taxable_operating_income == RSub(noi, depreciation)
        tax_liability == RMul(taxable_operating_income, RDiv(tax_bracket, Num(100)))
        operating_cf == RSub(noi, tax_liability)
        cum == RAdd(cumulative, operating_cf)
    IN  <<CashFlowRow(year, noi, depreciation, taxable_operating_income,
                      tax_liability, operating_cf, cum)>>
        \o operating_cash_flow_loop_refund_losses(year + 1, df_dep, cum, rental_income,
                                                  operating_expenses, tax_bracket)

\* The loop of compute_operating_cash_flow over df_dep.index from `year` on.
RECURSIVE operating_cash_flow_loop(_, _, _, _, _, _)
operating_cash_flow_loop(year, df_dep, cumulative, rental_income, operating_expenses, tax_bracket) ==
    IF year > Len(df_dep) THEN <<>>
    ELSE
    LET depreciation == df_dep[year]["Total Depreciation"]
        noi == RSub(rental_income, operating_expenses)
        taxable_operating_income == RSub(noi, depreciation)
        tax_liability == IF RLt(Zero, taxable_operating_income)
                         THEN RMul(taxable_operating_income, RDiv(tax_bracket, Num(100)))
                         ELSE Zero
        operating_cf == RSub(noi, tax_liability)
        cum == RAdd(cumulative, operating_cf)
    IN  <<CashFlowRow(year, noi, depreciation, taxable_operating_income,
                      tax_liability, operating_cf, cum)>>
        \o operating_cash_flow_loop(year + 1, df_dep, cum, rental_income,
                                    operating_expenses, tax_bracket)

compute_operating_cash_flow(df_dep, rental_income, operating_expenses, tax_bracket) ==
    operating_cash_flow_loop(1, df_dep, Zero, rental_income, operating_expenses, tax_bracket)

\* ------------------------------------------------------------ program state
VARIABLES
    \* sidebar inputs (module-level names assigned from the widgets)
    property_value, land_value, dep_years, property_type, bonus_percent,
    sale_price, simulate_exchange, reinvested_value,
    years, tax_bracket, rental_income, operating_expenses,
    \* position of the script run and the exception that stopped it
    pc, err,
    \* module-level names assigned by the tabs
    bonus_dep, normal_dep, first_year_dep,
    df, df_dep, sale_df, deferred_tax,
    asset_breakdown, breakdown_df, comp_df, op_cf_df,
    \* direct calls of the helper functions: the call made and what it returned
    call, ret

inputs == <<property_value, land_value, dep_years, property_type, bonus_percent,
            sale_price, simulate_exchange, reinvested_value,
            years, tax_bracket, rental_income, operating_expenses>>
names == <<bonus_dep, normal_dep, first_year_dep, df, df_dep, sale_df, deferred_tax,
           asset_breakdown, breakdown_df, comp_df, op_cf_df>>
vars == <<inputs, pc, err, names, call, ret>>

\* ------------------------------------------------------------ sidebar inputs
property_types == <<"Multifamily", "Hotel", "Retail", "Office">>
default_bonus ==
    ("Multifamily" :> R(40, 100)) @@ ("Hotel" :> R(50, 100))
    @@ ("Retail" :> R(35, 100)) @@ ("Office" :> R(30, 100))

\* Values entered in the widgets.  number_input is called without min_value,
\* so zero and negative numbers can be entered.
PropertyValues == {Num(100), Num(200)}
LandValues == {Num(40), Num(200)}
DepYearsInputs == {R(h, 2) : h \in (0 - 1)..MaxDepHalves}
PropertyTypes == {property_types[i] : i \in DOMAIN property_types}
SliderValues == {Zero, Num(1)}
SalePrices == {Num(80), Num(240)}
ReinvestedValues == {Num(240), Num(300)}
YearsInputs == 0..MaxYears
TaxBrackets == {Num(0), Num(37)}
RentalIncomes == {Num(2), Num(10)}
OperatingExpensesInputs == {Num(3)}

NoCall == [fn |-> ""]

NamesUnset ==
    /\ bonus_dep = Unset /\ normal_dep = Unset /\ first_year_dep = Unset
    /\ df = <<>> /\ df_dep = <<>> /\ sale_df = <<>> /\ deferred_tax = Unset
    /\ asset_breakdown = <<>> /\ breakdown_df = {} /\ comp_df = <<>> /\ op_cf_df = <<>>

\* A script run starts: the sidebar (lines 155-179) has assigned the inputs.
Init ==
    /\ property_value \in PropertyValues
    /\ land_value \in LandValues
    /\ dep_years \in DepYearsInputs
    /\ property_type \in PropertyTypes
    /\ bonus_percent \in SliderValues \cup {default_bonus[property_type]}
    /\ sale_price \in SalePrices
    /\ simulate_exchange \in BOOLEAN
    /\ reinvested_value \in (IF simulate_exchange THEN ReinvestedValues ELSE {Zero})
    /\ years \in YearsInputs
    /\ tax_bracket \in TaxBrackets
    /\ rental_income \in RentalIncomes
    /\ operating_expenses \in OperatingExpensesInputs
    /\ pc = "tab1" /\ err = ""
    /\ NamesUnset
    /\ call = NoCall /\ ret = <<>>

\* An uncaught exception stops the script run.
Crash(e) == pc' = "error" /\ err' = e

\* Variant: the exchange tab runs after the property-type comparison.
NextTabExchangeLast(p) ==
    CASE p = "tab1" -> "tab2" [] p = "tab2" -> "tab3" [] p = "tab3" -> "tab5"
      [] p = "tab5" -> "tab4" [] p = "tab4" -> "tab6" [] p = "tab6" -> "done"

\* The tab that runs after tab p.
NextTab(p) ==
    CASE p = "tab1" -> "tab2" [] p = "tab2" -> "tab3" [] p = "tab3" -> "tab4"
      [] p = "tab4" -> "tab5" [] p = "tab5" -> "tab6" [] p = "tab6" -> "done"

\* ---------------------------------------------------------------- the tabs
\* One action per `with tabN:` block.  The st.* rendering calls keep no
\* program state and are left out; the names the blocks assign are kept.
Tab1 ==
    /\ pc = "tab1"
    /\ LET r == calculate_depreciation(property_value, land_value, dep_years, bonus_percent)
       IN  IF r.exc # ""
           THEN Crash(r.exc) /\ UNCHANGED <<bonus_dep, normal_dep, first_year_dep>>
           ELSE /\ bonus_dep' = r.val[1]
                /\ normal_dep' = r.val[2]
                /\ first_year_dep' = r.val[3]
                /\ pc' = NextTab(pc)
                /\ err' = err
    /\ UNCHANGED <<inputs, df, df_dep, sale_df, deferred_tax,
                   asset_breakdown, breakdown_df, comp_df, op_cf_df, call, ret>>

Tab2 ==
    /\ pc = "tab2"
    /\ LET r == multi_year_cash_flow(property_value, land_value, dep_years, bonus_percent, years)
       IN  IF r.exc # ""
           THEN Crash(r.exc) /\ UNCHANGED df
           ELSE df' = r.val /\ pc' = NextTab(pc) /\ err' = err
    /\ UNCHANGED <<inputs, bonus_dep, normal_dep, first_year_dep, df_dep, sale_df,
                   deferred_tax, asset_breakdown, breakdown_df, comp_df, op_cf_df,
                   call, ret>>

SaleRow(year, cumulative_dep, tax_results) ==
    ("Holding Period (years)" :> Num(year)) @@ ("Cumulative Depreciation" :> cumulative_dep)
    @@ tax_results

\* The loop of tab 3 over df_dep.index: one calculate_sale_tax call per year.
sale_data_rows(schedule, cost_basis, price) ==
    [year \in 1..Len(schedule) |->
        LET cumulative_dep == schedule[year]["Cumulative Depreciation"]
        IN  SaleRow(year, cumulative_dep,
                    calculate_sale_tax(cost_basis, price, cumulative_dep,
                                       DefaultRecaptureRate, DefaultCapitalGainsRate))]

Tab3 ==
    /\ pc = "tab3"
    /\ LET r == multi_year_cash_flow(property_value, land_value, dep_years, bonus_percent, years)
           cost_basis == property_value
       IN  IF r.exc # ""
           THEN Crash(r.exc) /\ UNCHANGED <<df_dep, sale_df>>
           ELSE /\ df_dep' = r.val
                /\ sale_df' = sale_data_rows(r.val, cost_basis, sale_price)
                /\ pc' = NextTab(pc)
                /\ err' = err
    /\ UNCHANGED <<inputs, bonus_dep, normal_dep, first_year_dep, df, deferred_tax,
                   asset_breakdown, breakdown_df, comp_df, op_cf_df, call, ret>>

exchange_deferred_tax ==
    simulate_1031_exchange(sale_price, first_year_dep, property_value, reinvested_value,
                           DefaultRecaptureRate, DefaultCapitalGainsRate)

Tab4 ==
    /\ pc = "tab4"
    /\ IF simulate_exchange
       THEN deferred_tax' = exchange_deferred_tax
       ELSE deferred_tax' = deferred_tax
    /\ pc' = NextTab(pc)
    /\ UNCHANGED <<inputs, err, bonus_dep, normal_dep, first_year_dep, df, df_dep,
                   sale_df, asset_breakdown, breakdown_df, comp_df, op_cf_df, call, ret>>

\* f"{x*100:.0f}%"
PercentText(x) ==
    LET p == RMul(x, Num(100))
    IN  ToString((2 * p[1] + p[2]) \div (2 * p[2])) \o "%"

ComparisonRow(ptype, bonus_pct, d) ==
    [ptype |-> ptype, bonus_text |-> PercentText(bonus_pct),
     bonus_dep |-> d[1], normal_dep |-> d[2], first_year_dep |-> d[3]]

\* dep_years # 0 when tab 5 runs: tab 1 made the same division.
Tab5 ==
    /\ pc = "tab5"
    /\ asset_breakdown' = get_asset_breakdown(property_type)
    /\ breakdown_df' = { [asset_class |-> c,
                          percentage |-> PercentText(asset_breakdown'[c][1]),
                          life |-> asset_breakdown'[c][2],
                          asset_types |-> asset_breakdown'[c][3]]
                         : c \in DOMAIN asset_breakdown' }
    /\ LET default_bonuses == default_bonus
           comparisons ==
               [i \in DOMAIN property_types |->
                   calculate_depreciation(property_value, land_value, dep_years,
                                          default_bonuses[property_types[i]])]
           last == comparisons[Len(property_types)]
       IN  IF comparisons[1].exc # ""
           THEN Crash(comparisons[1].exc)
                /\ UNCHANGED <<bonus_dep, normal_dep, first_year_dep, comp_df>>
           ELSE /\ bonus_dep' = last.val[1]
                /\ normal_dep' = last.val[2]
                /\ first_year_dep' = last.val[3]
                /\ comp_df' = [i \in DOMAIN property_types |->
                                  ComparisonRow(property_types[i],
                                                default_bonuses[property_types[i]],
                                                comparisons[i].val)]
                /\ pc' = NextTab(pc)
                /\ err' = err
    /\ UNCHANGED <<inputs, df, df_dep, sale_df, deferred_tax, op_cf_df, call, ret>>

\* Selecting the columns "Year" and "Operating Cash Flow" of a frame built
\* from an empty list of records raises KeyError (line 349).
Tab6 ==
    /\ pc = "tab6"
    /\ LET r == multi_year_cash_flow(property_value, land_value, dep_years, bonus_percent, years)
       IN  IF r.exc # ""
           THEN Crash(r.exc) /\ UNCHANGED <<df_dep, op_cf_df>>
           ELSE /\ df_dep' = r.val
                /\ op_cf_df' = compute_operating_cash_flow(r.val, rental_income,
                                                           operating_expenses, tax_bracket)
                /\ IF Len(op_cf_df') = 0
                   THEN Crash("KeyError")
                   ELSE pc' = NextTab(pc) /\ err' = err
    /\ UNCHANGED <<inputs, bonus_dep, normal_dep, first_year_dep, df, sale_df,
                   deferred_tax, asset_breakdown, breakdown_df, comp_df, call, ret>>

\* ------------------------------------------------------------------- reruns
\* Changing one widget reruns the script from the top in a fresh namespace.
NewRun ==
    /\ pc' = "tab1" /\ err' = ""
    /\ bonus_dep' = Unset /\ normal_dep' = Unset /\ first_year_dep' = Unset
    /\ df' = <<>> /\ df_dep' = <<>> /\ sale_df' = <<>> /\ deferred_tax' = Unset
    /\ asset_breakdown' = <<>> /\ breakdown_df' = {} /\ comp_df' = <<>> /\ op_cf_df' = <<>>
    /\ UNCHANGED <<call, ret>>

Finished == pc \in {"done", "error"}

ChangeNumber ==
    /\ Finished
    /\ \/ property_value' \in PropertyValues \ {property_value}
          /\ UNCHANGED <<land_value, dep_years, sale_price, years, tax_bracket, rental_income>>
       \/ land_value' \in LandValues \ {land_value}
          /\ UNCHANGED <<property_value, dep_years, sale_price, years, tax_bracket, rental_income>>
       \/ dep_years' \in DepYearsInputs \ {dep_years}
          /\ UNCHANGED <<property_value, land_value, sale_price, years, tax_bracket, rental_income>>
       \/ sale_price' \in SalePrices \ {sale_price}
          /\ UNCHANGED <<property_value, land_value, dep_years, years, tax_bracket, rental_income>>
       \/ years' \in YearsInputs \ {years}
          /\ UNCHANGED <<property_value, land_value, dep_years, sale_price, tax_bracket, rental_income>>
       \/ tax_bracket' \in TaxBrackets \ {tax_bracket}
          /\ UNCHANGED <<property_value, land_value, dep_years, sale_price, years, rental_income>>
       \/ rental_income' \in RentalIncomes \ {rental_income}
          /\ UNCHANGED <<property_value, land_value, dep_years, sale_price, years, tax_bracket>>
    /\ UNCHANGED <<property_type, bonus_percent, simulate_exchange, reinvested_value,
                   operating_expenses>>
    /\ NewRun

\* The slider's default follows the property type (lines 163-166).
ChangePropertyType ==
    /\ Finished
    /\ property_type' \in PropertyTypes \ {property_type}
    /\ bonus_percent' = default_bonus[property_type']
    /\ UNCHANGED <<property_value, land_value, dep_years, sale_price, simulate_exchange,
                   reinvested_value, years, tax_bracket, rental_income, operating_expenses>>
    /\ NewRun

ChangeBonusPercent ==
    /\ Finished
    /\ bonus_percent' \in (SliderValues \cup {default_bonus[property_type]}) \ {bonus_percent}
    /\ UNCHANGED <<property_value, land_value, dep_years, property_type, sale_price,
                   simulate_exchange, reinvested_value, years, tax_bracket, rental_income,
                   operating_expenses>>
    /\ NewRun

\* reinvested_value is 0 unless the box is checked; checking it shows the
\* number input at its default 12,000,000 (lines 170-173).
ChangeExchange ==
    /\ Finished
    /\ \/ simulate_exchange' = ~simulate_exchange
          /\ reinvested_value' = (IF simulate_exchange' THEN Num(240) ELSE Zero)
       \/ simulate_exchange /\ simulate_exchange' = TRUE
          /\ reinvested_value' \in ReinvestedValues \ {reinvested_value}
    /\ UNCHANGED <<property_value, land_value, dep_years, property_type, bonus_percent,
                   sale_price, years, tax_bracket, rental_income, operating_expenses>>
    /\ NewRun

Next ==
    \/ Tab1 \/ Tab2 \/ Tab3 \/ Tab4 \/ Tab5 \/ Tab6
    \/ ChangeNumber \/ ChangePropertyType \/ ChangeBonusPercent \/ ChangeExchange

Spec == Init /\ [][Next]_vars

\* ------------------------------------------- direct calls of the helpers
\* The helper functions called on their own, with arguments the page never
\* passes (a cost basis other than the property value, rates other than the
\* defaults, a property type outside the select box).
CostBases == {Num(100), Num(200)}
CallSalePrices == {Zero, Num(80), Num(240)}
CumulativeDepreciations == {Zero, Num(60), R(485, 3), Num(200)}
RecaptureRates == {DefaultRecaptureRate, R(15, 100)}
CapitalGainsRates == {DefaultCapitalGainsRate, R(15, 100)}
CallPropertyTypes == PropertyTypes \cup {"Industrial"}

\* The sidebar defaults (lines 158-179); no tab has run.
InitFn ==
    /\ property_value = Num(200) /\ land_value = Num(40) /\ dep_years = R(55, 2)
    /\ property_type = "Multifamily" /\ bonus_percent = default_bonus[property_type]
    /\ sale_price = Num(240) /\ simulate_exchange = FALSE /\ reinvested_value = Zero
    /\ years = 10 /\ tax_bracket = Num(37)
    /\ rental_income = Num(10) /\ operating_expenses = Num(3)
    /\ pc = "tab1" /\ err = ""
    /\ NamesUnset
    /\ call = NoCall /\ ret = <<>>

CallSaleTax ==
    /\ \E cb \in CostBases, sp \in CallSalePrices, cd \in CumulativeDepreciations,
          rr \in RecaptureRates, cg \in CapitalGainsRates :
          /\ call' = [fn |-> "calculate_sale_tax", cost_basis |-> cb, sale_price |-> sp,
                      cumulative_depreciation |-> cd, recapture_rate |-> rr,
                      capital_gains_rate |-> cg]
          /\ ret' = calculate_sale_tax(cb, sp, cd, rr, cg)
    /\ UNCHANGED <<inputs, pc, err, names>>

CallExchange ==
    /\ \E cb \in CostBases, sp \in CallSalePrices, cd \in CumulativeDepreciations,
          rv \in ReinvestedValues \cup {Zero},
          rr \in RecaptureRates, cg \in CapitalGainsRates :
          /\ call' = [fn |-> "simulate_1031_exchange", cost_basis |-> cb, sale_price |-> sp,
                      total_depreciation |-> cd, reinvested_value |-> rv,
                      recapture_rate |-> rr, capital_gains_rate |-> cg]
          /\ ret' = simulate_1031_exchange(sp, cd, cb, rv, rr, cg)
    /\ UNCHANGED <<inputs, pc, err, names>>

CallBreakdown ==
    /\ \E t \in CallPropertyTypes :
          /\ call' = [fn |-> "get_asset_breakdown", property_type |-> t]
          /\ ret' = get_asset_breakdown(t)
    /\ UNCHANGED <<inputs, pc, err, names>>

NextFn == CallSaleTax \/ CallExchange \/ CallBreakdown

SpecFn == InitFn /\ [][NextFn]_vars

\* ------------------------------------------------------------------ claims
BuildingValue == RSub(property_value, land_value)

\* Section 6 of the specification: the constraints on the inputs.
ValidInputs ==
    /\ RLeq(Zero, land_value) /\ RLt(land_value, property_value)
    /\ RLt(Zero, dep_years)
    /\ RLeq(Zero, bonus_percent) /\ RLeq(bonus_percent, Num(1))
    /\ years >= 1

\* Tab 2 has assigned df.
ScheduleAssigned == pc \in {"tab3", "tab4", "tab5", "tab6", "done"} \/ err = "KeyError"
\* Tab 3 has assigned sale_df.
SaleTableAssigned == pc \in {"tab4", "tab5", "tab6", "done"} \/ err = "KeyError"
\* Tab 4 has run.
ExchangeTabDone == pc \in {"tab5", "tab6", "done"} \/ err = "KeyError"
\* Tab 6 has assigned op_cf_df.
CashFlowAssigned == pc = "done" \/ err = "KeyError"

RECURSIVE RunningSum(_, _, _)
RunningSum(rows, column, n) ==
    IF n = 0 THEN Zero ELSE RAdd(RunningSum(rows, column, n - 1), rows[n][column])

\* C1: invalid input is rejected.  When buildingValue <= 0 or
\* depreciationYears <= 0, tab 1's calculate_depreciation ends in
\* InvalidInputError and assigns no depreciation figures; when one of these
\* holds or modelingYears <= 0, tab 2's multi_year_cash_flow ends in
\* InvalidInputError and assigns no schedule.
C1_InvalidInputRejected ==
    /\ (RLeq(BuildingValue, Zero) \/ RLeq(dep_years, Zero)) /\ pc # "tab1"
           => /\ pc = "error" /\ err = "InvalidInputError"
              /\ bonus_dep = Unset /\ normal_dep = Unset /\ first_year_dep = Unset
    /\ (RLeq(BuildingValue, Zero) \/ RLeq(dep_years, Zero) \/ years <= 0)
       /\ pc \notin {"tab1", "tab2"}
           => pc = "error" /\ err = "InvalidInputError" /\ df = <<>>

\* C2: for valid inputs the Cumulative Depreciation column of the schedule is
\* non-decreasing in the year, and when years >= depreciationYears its final
\* value is at most the building value.
C2_CumulativeBounded ==
    ValidInputs /\ ScheduleAssigned =>
        /\ \A y \in 1..(Len(df) - 1) :
               RLeq(df[y]["Cumulative Depreciation"], df[y + 1]["Cumulative Depreciation"])
        /\ RLeq(dep_years, Num(years)) =>
               RLeq(df[Len(df)]["Cumulative Depreciation"], BuildingValue)

\* C3: for valid inputs the schedule has exactly `years` records 1..years;
\* Bonus Depreciation is zero except in year 1; Normal Depreciation is zero in
\* every year greater than depreciationYears and remainingBasis /
\* depreciationYears in every year up to depreciationYears.
C3_ScheduleShape ==
    ValidInputs /\ ScheduleAssigned =>
        /\ Len(df) = years
        /\ \A y \in 1..Len(df) :
               /\ y # 1 => df[y]["Bonus Depreciation"] = Zero
               /\ RLt(dep_years, Num(y)) => df[y]["Normal Depreciation"] = Zero
               /\ RLeq(Num(y), dep_years) =>
                      df[y]["Normal Depreciation"] =
                          RDiv(RSub(BuildingValue, RMul(BuildingValue, bonus_percent)),
                               dep_years)

\* C4: consistency law.  For the same inputs and years >= 1, the (bonus,
\* normal, total) triple of calculate_depreciation (tab 1) is the year-1
\* record of multi_year_cash_flow (tab 2), whose Cumulative Depreciation is
\* that total.
C4_YearOneConsistent ==
    pc \in {"tab3", "tab4"} /\ years >= 1 =>
        /\ df[1]["Bonus Depreciation"] = bonus_dep
        /\ df[1]["Normal Depreciation"] = normal_dep
        /\ df[1]["Total Depreciation"] = first_year_dep
        /\ df[1]["Cumulative Depreciation"] = first_year_dep

C4_Witness ==
    /\ pc = "tab3" /\ years >= 2
    /\ RLt(Zero, bonus_dep) /\ RLt(Zero, normal_dep)
    /\ df[1]["Total Depreciation"] = first_year_dep
    /\ df[2]["Cumulative Depreciation"] # first_year_dep

\* C5: calculate_sale_tax follows the reference formulas for every cost basis,
\* sale price and cumulative depreciation >= 0: recapture tax is the full
\* cumulative depreciation times the recapture rate, capital gains tax is
\* max(totalGain - cumulativeDepreciation, 0) times the capital gains rate; a
\* negative total gain gives capital gains tax 0, and cumulative depreciation
\* 0 gives recapture tax 0 and capital gains tax max(salePrice - costBasis, 0)
\* times the rate.
C5_SaleTaxFormulas ==
    call.fn = "calculate_sale_tax" =>
        LET cb == call.cost_basis
            sp == call.sale_price
            cd == call.cumulative_depreciation
            gain == RSub(sp, RSub(cb, cd))
        IN  /\ ret["Adjusted Basis"] = RSub(cb, cd)
            /\ ret["Total Gain"] = gain
            /\ ret["Depreciation Recapture Tax"] = RMul(cd, call.recapture_rate)
            /\ ret["Capital Gains Tax"] =
                   RMul(RMax(RSub(gain, cd), Zero), call.capital_gains_rate)
            /\ ret["Total Tax"] =
                   RAdd(ret["Depreciation Recapture Tax"], ret["Capital Gains Tax"])
            /\ RLt(gain, Zero) => ret["Capital Gains Tax"] = Zero
            /\ cd = Zero =>
                   /\ ret["Depreciation Recapture Tax"] = Zero
                   /\ ret["Capital Gains Tax"] =
                          RMul(RMax(RSub(sp, cb), Zero), call.capital_gains_rate)

\* A sale at a loss (negative total gain) with depreciation taken: the
\* recapture tax is still charged in full.
C5_Witness ==
    /\ call.fn = "calculate_sale_tax"
    /\ RLt(Zero, call.cumulative_depreciation)
    /\ RLt(ret["Total Gain"], Zero)
    /\ ret["Capital Gains Tax"] = Zero
    /\ RLt(Zero, ret["Depreciation Recapture Tax"])

\* C6: simulate_1031_exchange returns the Total Tax of calculate_sale_tax for
\* the same cost basis, sale price, depreciation and rates, whatever the
\* reinvested value: calls that differ only in reinvested_value return the
\* same value.
C6_ExchangeIgnoresReinvested ==
    call.fn = "simulate_1031_exchange" =>
        /\ ret = calculate_sale_tax(call.cost_basis, call.sale_price,
                                    call.total_depreciation, call.recapture_rate,
                                    call.capital_gains_rate)["Total Tax"]
        /\ \A rv \in ReinvestedValues \cup {Zero} :
               simulate_1031_exchange(call.sale_price, call.total_depreciation,
                                      call.cost_basis, rv, call.recapture_rate,
                                      call.capital_gains_rate) = ret

C6_Witness ==
    /\ call.fn = "simulate_1031_exchange"
    /\ call.reinvested_value = Num(300)
    /\ RLt(call.cost_basis, call.sale_price)
    /\ RLt(Zero, ret)

RECURSIVE PercentSum(_, _)
PercentSum(mapping, classes) ==
    IF classes = {} THEN Zero
    ELSE LET c == CHOOSE x \in classes : TRUE
         IN  RAdd(mapping[c][1], PercentSum(mapping, classes \ {c}))

\* C8: for each of the four property types get_asset_breakdown returns a
\* mapping whose percentages sum to 1.0 within 0.01; for any other type it
\* returns the empty mapping and raises nothing.
C8_BreakdownCatalog ==
    call.fn = "get_asset_breakdown" =>
        IF call.property_type \in {"Multifamily", "Hotel", "Retail", "Office"}
        THEN /\ DOMAIN ret # {}
             /\ LET total == PercentSum(ret, DOMAIN ret)
                IN  /\ RLeq(RSub(Num(1), R(1, 100)), total)
                    /\ RLeq(total, RAdd(Num(1), R(1, 100)))
        ELSE DOMAIN ret = {}

C8_Witness ==
    /\ call.fn = "get_asset_breakdown"
    /\ call.property_type = "Industrial"
    /\ DOMAIN ret = {}

SelectedFirstYearDep ==
    calculate_depreciation(property_value, land_value, dep_years, bonus_percent).val[3]

\* C10: in every run, once the exchange tab has run, the deferred tax is the
\* sale tax on the first-year depreciation of the bonus percent selected in
\* the sidebar, also after tab 5 has reassigned bonus_dep, normal_dep and
\* first_year_dep; with years >= 1 it is the Total Tax of the
\* holding-period-1 row of the sale-tax table.  Without the exchange box no
\* deferred tax is computed.
C10_DeferredTaxFromSelectedBonus ==
    ExchangeTabDone =>
        IF simulate_exchange
        THEN /\ deferred_tax =
                    calculate_sale_tax(property_value, sale_price, SelectedFirstYearDep,
                                       DefaultRecaptureRate,
                                       DefaultCapitalGainsRate)["Total Tax"]
             /\ years >= 1 => deferred_tax = sale_df[1]["Total Tax"]
        ELSE deferred_tax = Unset

\* The run is over, tab 5 has left another first-year depreciation in
\* first_year_dep, and the deferred tax is that of holding period 1.
C10_Witness ==
    /\ pc = "done" /\ simulate_exchange /\ years >= 1
    /\ first_year_dep # SelectedFirstYearDep
    /\ deferred_tax = sale_df[1]["Total Tax"]
    /\ RLt(Zero, deferred_tax)

====
